---- MODULE Spec2Model ----
(***************************************************************************)
(* CorView (src/CorView/vis.py): notebook widgets that import a 3D CT      *)
(* stack (Image3D), 2D histology images (Image2D, recorded in the          *)
(* module-level dict instances_2D), and render both side by side           *)
(* (CreateVis).  Every handler runs to completion on the kernel thread, so *)
(* each handler is one action.                                             *)
(***************************************************************************)
EXTENDS Integers, Sequences, FiniteSets, TLC

VARIABLES
    clock,          \* the second time.localtime() reports
    instances_3D,   \* module list instances_3D: the Image3D objects, in creation order
    heap_2D,        \* every Image2D object ever constructed, indexed by identity
    instances_2D,   \* module dict instances_2D: insertion-ordered <<key, object>> entries
    creator,        \* TRUE once CreateImage2D.display_widgets has shown its buttons
    vis,            \* the CreateVis object the notebook holds, once one is made
    bokeh_file,     \* the output target bokeh holds since the last output_file call
    last,           \* what the most recent handler did: its error, reads and output
    arg,            \* rgba: the arguments of the call
    ret             \* rgba: the returned array

vars == <<clock, instances_3D, heap_2D, instances_2D, creator, vis, bokeh_file, last, arg, ret>>

-----------------------------------------------------------------------------
(* Bounds of the model *)

MaxClock == 1
MaxImages3D == 1
MaxImages2D == 2
MaxPixels == 2

-----------------------------------------------------------------------------
(* Arrays: a numpy array is its dtype, its shape and its elements in       *)
(* row-major order.                                                        *)

NoArray == [dtype |-> "none", shape |-> <<>>, data |-> <<>>]

Array(dtype, shape, data) == [dtype |-> dtype, shape |-> shape, data |-> data]

ndim(a) == Len(a.shape)

\* len(a): the length of the first dimension
len(a) == a.shape[1]

\* a[i] for a 3-dimensional array, i counted from 0
Frame(a, i) ==
    LET n == a.shape[2] * a.shape[3]
    IN  Array(a.dtype, <<a.shape[2], a.shape[3]>>, SubSeq(a.data, i * n + 1, (i + 1) * n))

-----------------------------------------------------------------------------
(* The files a user can pick in the FileChooser, and what io.imread makes  *)
(* of each.                                                                *)

Decoded ==
    [ct3 |-> Array("uint16", <<3, 1, 2>>, <<0, 255, 256, 511, 1000, 65535>>),
     rgb |-> Array("uint8", <<1, 2, 3>>, <<10, 20, 30, 40, 50, 60>>),
     rgba |-> Array("uint8", <<1, 1, 4>>, <<1, 2, 3, 4>>),
     gray |-> Array("uint8", <<2, 2>>, <<1, 2, 3, 4>>)]

Readable == DOMAIN Decoded

Files == Readable \cup {"notes"}

\* skimage.io.imread(path, plugin="pil"): an array, or an exception
imread(f) == IF f \in Readable THEN [err |-> "", img |-> Decoded[f]]
             ELSE [err |-> "IOError", img |-> NoArray]

\* skimage.util.img_as_ubyte: uint8 is returned as it is, uint16 is scaled down
img_as_ubyte(a) ==
    IF a.dtype = "uint16"
    THEN Array("uint8", a.shape, [j \in 1..Len(a.data) |-> a.data[j] \div 256])
    ELSE a

-----------------------------------------------------------------------------
(* rgba: append a constant alpha plane to the last axis of an image *)

\* the value a uint8 array holds after fill_value is stored into it
uint8(x) == x % 256

DefaultAlpha == 255

\* rgba, had it always filled the plane with full alpha
rgba_opaque(img_2D, alpha) ==
    LET shape == img_2D.shape
        c     == shape[3]
        n     == shape[1] * shape[2]
    IN  Array("uint8", <<shape[1], shape[2], c + 1>>,
              [j \in 1..(n * (c + 1)) |->
                  IF (j - 1) % (c + 1) = c THEN DefaultAlpha
                  ELSE img_2D.data[((j - 1) \div (c + 1)) * c + ((j - 1) % (c + 1)) + 1]])

rgba(img_2D, alpha) ==
    LET shape == img_2D.shape
        c     == shape[3]
        n     == shape[1] * shape[2]
        fill  == uint8(alpha)
    IN  Array("uint8", <<shape[1], shape[2], c + 1>>,
              [j \in 1..(n * (c + 1)) |->
                  IF (j - 1) % (c + 1) = c THEN fill
                  ELSE img_2D.data[((j - 1) \div (c + 1)) * c + ((j - 1) % (c + 1)) + 1]])

-----------------------------------------------------------------------------
(* Strings that the code inspects are sequences of characters *)

Str_html == <<".", "h", "t", "m", "l">>

Str_default == <<"3", "D", "X", "R", "H", "-", "V", "i", "s", ".", "h", "t", "m", "l">>

endswith(s, suffix) ==
    /\ Len(s) >= Len(suffix)
    /\ SubSeq(s, Len(s) - Len(suffix) + 1, Len(s)) = suffix

\* the extension, had it been appended whatever the name ends with
WithExtension_always(s) == s \o Str_html

\* "ensures correct file extension"
WithExtension(s) == IF endswith(s, Str_html) = FALSE THEN s \o Str_html ELSE s

-----------------------------------------------------------------------------
(* Image2D.time_imported: time.strftime("%D%H%M%S", time.localtime()) *)

strftime(t) == <<"01/01/70", (t \div 3600) % 24, (t \div 60) % 60, t % 60>>

-----------------------------------------------------------------------------
(* The dict instances_2D: a sequence of entries in insertion order *)

Keys(d) == [i \in 1..Len(d) |-> d[i].key]

HasKey(d, k) == \E i \in 1..Len(d) : d[i].key = k

Index(d, k) == CHOOSE i \in 1..Len(d) : d[i].key = k

\* d[k]
Lookup(d, k) == d[Index(d, k)].obj

\* d[k] = o
Store(d, k, o) ==
    IF HasKey(d, k) THEN [d EXCEPT ![Index(d, k)].obj = o]
    ELSE Append(d, [key |-> k, obj |-> o])

-----------------------------------------------------------------------------
(* Widget values *)

\* a float typed into the position box, kept in halves: 3 stands for 1.5
Float(n) == n * 2

\* Python int() of a float kept in halves
int(x) == IF x >= 0 THEN x \div 2 ELSE -((-x) \div 2)

\* BoundedFloatText caps and floors the value it is given
Bounded(x, lo, hi) == IF x < lo THEN lo ELSE IF x > hi THEN hi ELSE x

-----------------------------------------------------------------------------
(* Objects *)

NewImage3D == [widgets |-> FALSE, img |-> NoArray, n_frames |-> 0]

NewImage2D(t) ==
    [time_imported |-> strftime(t), widgets |-> FALSE,
     position |-> [min |-> 0, max |-> 0, value |-> 0],
     img_2d |-> NoArray]

NoKey == <<>>

\* a CreateVis that would take the newest Image3D, instances_3D[-1]
NewCreateVis_latest ==
    [made |-> TRUE, img_3D |-> Len(instances_3D), textbox |-> FALSE, text |-> <<>>,
     output_fname |-> <<>>, dropdown |-> FALSE, options |-> <<>>, value |-> NoKey,
     img_2D |-> 0, button |-> FALSE]

NewCreateVis ==
    [made |-> TRUE, img_3D |-> 1, textbox |-> FALSE, text |-> <<>>, output_fname |-> <<>>,
     dropdown |-> FALSE, options |-> <<>>, value |-> NoKey,
     img_2D |-> 0, button |-> FALSE]

NoCreateVis == [NewCreateVis EXCEPT !.made = FALSE, !.img_3D = 0]

\* hasattr(self, "img") and hasattr(self, "n_frames") of an Image3D
Loaded3D(o) == o.img # NoArray

\* hasattr(self, "img_2d") of an Image2D
Loaded2D(o) == o.img_2d # NoArray

\* Image2D.get_position
get_position(o) == int(o.position.value)

-----------------------------------------------------------------------------
(* What a handler reports: the object it acted on, the exception            *)
(* it ended with ("" for none), the Image2D objects whose attributes it     *)
(* read for display, and what it handed to bokeh.                          *)

Idle ==
    [op |-> "", obj |-> 0, err |-> "", read |-> {}, rows |-> <<>>,
     target |-> <<>>, shown |-> FALSE, slice |-> 0, left |-> NoArray, right |-> NoArray,
     range |-> <<>>]

Report(op, obj, err) == [Idle EXCEPT !.op = op, !.obj = obj, !.err = err]

Init ==
    /\ clock = 0
    /\ instances_3D = <<>>
    /\ heap_2D = <<>>
    /\ instances_2D = <<>>
    /\ creator = FALSE
    /\ vis = NoCreateVis
    /\ bokeh_file = <<>>
    /\ last = Idle
    /\ arg = [img |-> NoArray, alpha |-> 0, given |-> FALSE]
    /\ ret = NoArray

\* time passes
Tick ==
    /\ clock < MaxClock
    /\ clock' = clock + 1
    /\ UNCHANGED <<instances_3D, heap_2D, instances_2D, creator, vis, bokeh_file, last, arg, ret>>

-----------------------------------------------------------------------------
(* Image3D *)

\* Image3D(), while fewer than most of them exist
Image3D_create(most) ==
    /\ Len(instances_3D) < most
    /\ instances_3D' = Append(instances_3D, NewImage3D)
    /\ last' = Report("Image3D", Len(instances_3D) + 1, "")
    /\ UNCHANGED <<clock, heap_2D, instances_2D, creator, vis, bokeh_file, arg, ret>>

Image3D_init == Image3D_create(MaxImages3D)

\* show_3D_slider(instances_3D[i].get_img()): the slider's range, and the
\* slice interact shows at once for the slider's first value
show_3D_slider(i) ==
    /\ Loaded3D(instances_3D[i])
    /\ last' = IF ~Loaded3D(instances_3D[1])
               THEN Report("show_3D_slider", i, "AttributeError")
               ELSE [Report("show_3D_slider", i, "") EXCEPT
                        !.range = <<0, instances_3D[1].n_frames - 1>>,
                        !.left = Frame(instances_3D[i].img, 0)]
    /\ UNCHANGED <<clock, instances_3D, heap_2D, instances_2D, creator, vis, bokeh_file,
                   arg, ret>>

Image3D_display_widgets(i) ==
    /\ instances_3D' = [instances_3D EXCEPT ![i].widgets = TRUE]
    /\ last' = Report("Image3D.display_widgets", i, "")
    /\ UNCHANGED <<clock, heap_2D, instances_2D, creator, vis, bokeh_file, arg, ret>>

\* the handler, had it stored the image before checking its dimensions
Image3D_load_unchecked(self, f) ==
    LET img_import == imread(f)
    IN  IF img_import.err # "" THEN [err |-> img_import.err, self |-> self]
        ELSE IF ndim(img_import.img) # 3
        THEN [err |-> "ValueError", self |-> [self EXCEPT !.img = img_as_ubyte(img_import.img)]]
        ELSE LET img == img_as_ubyte(img_import.img)
             IN  [err |-> "", self |-> [self EXCEPT !.img = img, !.n_frames = len(img)]]

\* the handler, had it kept the first frame count it ever computed
Image3D_load_stale_frames(self, f) ==
    LET img_import == imread(f)
    IN  IF img_import.err # "" THEN [err |-> img_import.err, self |-> self]
        ELSE IF ndim(img_import.img) # 3 THEN [err |-> "ValueError", self |-> self]
        ELSE LET img == img_as_ubyte(img_import.img)
             IN  [err |-> "",
                  self |-> [self EXCEPT !.img = img,
                                        !.n_frames = IF self.img = NoArray THEN len(img) ELSE @]]

\* the load handler on file f: the exception it raises and the object it leaves
Image3D_load(self, f) ==
    LET img_import == imread(f)
    IN  IF img_import.err # "" THEN [err |-> img_import.err, self |-> self]
        ELSE IF ndim(img_import.img) # 3 THEN [err |-> "ValueError", self |-> self]
        ELSE LET img == img_as_ubyte(img_import.img)
             IN  [err |-> "",
                  self |-> [self EXCEPT !.img = img, !.n_frames = len(img)]]

Image3D_on_load_button_clicked(i, f) ==
    /\ instances_3D[i].widgets
    /\ LET r == Image3D_load(instances_3D[i], f)
       IN  /\ instances_3D' = [instances_3D EXCEPT ![i] = r.self]
           /\ last' = Report("Image3D.load", i, r.err)
    /\ UNCHANGED <<clock, heap_2D, instances_2D, creator, vis, bokeh_file, arg, ret>>

-----------------------------------------------------------------------------
(* Image2D *)

\* Image2D._create_widgets: the exception it raises and the object it leaves
Image2D_create_widgets(self) ==
    IF Len(instances_3D) < 1 THEN [err |-> "IndexError", self |-> self]
    ELSE IF ~Loaded3D(instances_3D[1]) THEN [err |-> "AttributeError", self |-> self]
    ELSE [err |-> "",
          self |-> [self EXCEPT !.widgets = TRUE,
                                !.position = [min |-> Float(0),
                                              max |-> Float(instances_3D[1].n_frames - 1),
                                              value |-> Bounded(Float(0), Float(0), Float(instances_3D[1].n_frames - 1))]]]

\* the user types x into the position box
Image2D_position_typed(o, x) ==
    /\ heap_2D[o].widgets
    /\ heap_2D' = [heap_2D EXCEPT ![o].position.value = Bounded(x, heap_2D[o].position.min, heap_2D[o].position.max)]
    /\ last' = Report("Image2D.position", o, "")
    /\ UNCHANGED <<clock, instances_3D, instances_2D, creator, vis, bokeh_file, arg, ret>>

Image2D_load(self, f) ==
    LET img_import == imread(f)
    IN  IF img_import.err # "" THEN [err |-> img_import.err, self |-> self]
        ELSE IF ndim(img_import.img) # 3 THEN [err |-> "ValueError", self |-> self]
        ELSE [err |-> "", self |-> [self EXCEPT !.img_2d = img_as_ubyte(img_import.img)]]

Image2D_on_load_button_clicked(o, f) ==
    /\ heap_2D[o].widgets
    /\ LET r == Image2D_load(heap_2D[o], f)
       IN  /\ heap_2D' = [heap_2D EXCEPT ![o] = r.self]
           /\ last' = Report("Image2D.load", o, r.err)
    /\ UNCHANGED <<clock, instances_3D, instances_2D, creator, vis, bokeh_file, arg, ret>>

-----------------------------------------------------------------------------
(* CreateImage2D *)

CreateImage2D_display_widgets ==
    /\ creator' = TRUE
    /\ last' = Report("CreateImage2D.display_widgets", 0, "")
    /\ UNCHANGED <<clock, instances_3D, heap_2D, instances_2D, vis, bokeh_file, arg, ret>>

\* __init__, had it used instances_2D.setdefault(key, self)
Image2D_init_setdefault(d, t, o) ==
    IF HasKey(d, strftime(t)) THEN d ELSE Append(d, [key |-> strftime(t), obj |-> o])

\* Image2D.__init__: the key under which the new object o is recorded
Image2D_init(d, t, o) == Store(d, strftime(t), o)

\* "Add new image": Image2D() and then its display_widgets()
CreateImage2D_import_2D ==
    /\ creator
    /\ Len(heap_2D) < MaxImages2D
    /\ LET o == Len(heap_2D) + 1
           r == Image2D_create_widgets(NewImage2D(clock))
       IN  /\ heap_2D' = Append(heap_2D, r.self)
           /\ instances_2D' = Image2D_init(instances_2D, clock, o)
           /\ last' = Report("CreateImage2D.import_2D", o, r.err)
    /\ UNCHANGED <<clock, instances_3D, creator, vis, bokeh_file, arg, ret>>

\* the entries of d a display loop gets through: all of them, or up to the
\* first whose Image2D has no position attribute
ReadUpTo(d) ==
    LET bad == {i \in 1..Len(d) : ~heap_2D[d[i].obj].widgets}
    IN  IF bad = {} THEN Len(d) ELSE CHOOSE i \in bad : \A j \in bad : i <= j

DisplayError(d) ==
    IF \E i \in 1..Len(d) : ~heap_2D[d[i].obj].widgets THEN "AttributeError" ELSE ""

\* "Display list of loaded images"
CreateImage2D_display_instances ==
    /\ creator
    /\ LET err == DisplayError(instances_2D)
       IN  last' = [Report("CreateImage2D.display_instances", 0, err) EXCEPT
                       !.read = {instances_2D[i].obj : i \in 1..ReadUpTo(instances_2D)},
                       !.rows = IF err # "" THEN <<>>
                                ELSE [i \in 1..Len(instances_2D) |->
                                         <<instances_2D[i].key,
                                           get_position(heap_2D[instances_2D[i].obj])>>]]
    /\ UNCHANGED <<clock, instances_3D, heap_2D, instances_2D, creator, vis, bokeh_file, arg, ret>>

\* "Clear all 2D images"
\* a "Clear all" that would also drop the pixel data of the images it forgets
CreateImage2D_clear_all_released ==
    /\ creator
    /\ instances_2D' = <<>>
    /\ heap_2D' = [o \in 1..Len(heap_2D) |->
                      IF \E e \in 1..Len(instances_2D) : instances_2D[e].obj = o
                      THEN [heap_2D[o] EXCEPT !.img_2d = NoArray]
                      ELSE heap_2D[o]]
    /\ last' = Report("CreateImage2D.clear_all", 0, "")
    /\ UNCHANGED <<clock, instances_3D, creator, vis, bokeh_file, arg, ret>>

CreateImage2D_clear_all ==
    /\ creator
    /\ instances_2D' = <<>>
    /\ last' = Report("CreateImage2D.clear_all", 0, "")
    /\ UNCHANGED <<clock, instances_3D, heap_2D, creator, vis, bokeh_file, arg, ret>>

-----------------------------------------------------------------------------
(* CreateVis *)

CreateVis_init ==
    /\ IF Len(instances_3D) < 1
       THEN /\ vis' = vis
            /\ last' = Report("CreateVis", 0, "NameError")
       ELSE /\ vis' = NewCreateVis
            /\ last' = Report("CreateVis", 0, "")
    /\ UNCHANGED <<clock, instances_3D, heap_2D, instances_2D, creator, bokeh_file, arg, ret>>

\* widgets whose render button would be wired before the dropdown is built
CreateVis_create_widgets_button_first(self) ==
    LET named == [self EXCEPT !.textbox = TRUE, !.text = Str_default,
                              !.output_fname = WithExtension(Str_default),
                              !.button = TRUE]
        err   == DisplayError(instances_2D)
    IN  IF err # "" THEN [err |-> err, self |-> named]
        ELSE IF Len(instances_2D) = 0 THEN [err |-> "IndexError", self |-> named]
        ELSE [err |-> "",
              self |-> [named EXCEPT !.dropdown = TRUE,
                                     !.options = Keys(instances_2D),
                                     !.value = Keys(instances_2D)[1],
                                     !.img_2D = Lookup(instances_2D, Keys(instances_2D)[1])]]

\* widgets that would start on the newest key, [*instances_2D.keys()][-1]
CreateVis_create_widgets_newest(self) ==
    LET named == [self EXCEPT !.textbox = TRUE, !.text = Str_default,
                              !.output_fname = WithExtension(Str_default)]
        err   == DisplayError(instances_2D)
        keys  == Keys(instances_2D)
    IN  IF err # "" THEN [err |-> err, self |-> named]
        ELSE IF Len(instances_2D) = 0 THEN [err |-> "IndexError", self |-> named]
        ELSE [err |-> "",
              self |-> [named EXCEPT !.dropdown = TRUE,
                                     !.options = keys,
                                     !.value = keys[Len(keys)],
                                     !.img_2D = Lookup(instances_2D, keys[Len(keys)]),
                                     !.button = TRUE]]

\* CreateVis._create_widgets: the exception it raises and the object it leaves
CreateVis_create_widgets(self) ==
    LET named == [self EXCEPT !.textbox = TRUE, !.text = Str_default,
                              !.output_fname = WithExtension(Str_default)]
        err   == DisplayError(instances_2D)
    IN  IF err # "" THEN [err |-> err, self |-> named]
        ELSE IF Len(instances_2D) = 0 THEN [err |-> "IndexError", self |-> named]
        ELSE [err |-> "",
              self |-> [named EXCEPT !.dropdown = TRUE,
                                     !.options = Keys(instances_2D),
                                     !.value = Keys(instances_2D)[1],
                                     !.img_2D = Lookup(instances_2D, Keys(instances_2D)[1]),
                                     !.button = TRUE]]

CreateVis_display_widgets ==
    /\ vis.made
    /\ LET r == CreateVis_create_widgets(vis)
       IN  /\ vis' = r.self
           /\ last' = [Report("CreateVis.display_widgets", 0, r.err) EXCEPT
                          !.read = {instances_2D[i].obj : i \in 1..ReadUpTo(instances_2D)}]
    /\ UNCHANGED <<clock, instances_3D, heap_2D, instances_2D, creator, bokeh_file, arg, ret>>

\* the output-filename textbox changes to new
CreateVis_on_change_output_filename(new) ==
    /\ vis.textbox
    /\ new # vis.text
    /\ vis' = [vis EXCEPT !.text = new, !.output_fname = WithExtension(new)]
    /\ last' = Report("CreateVis.on_change_output_filename", 0, "")
    /\ UNCHANGED <<clock, instances_3D, heap_2D, instances_2D, creator, bokeh_file, arg, ret>>

\* the dropdown changes to another of its options
\* a selection handler that would look the key up with dict.get
CreateVis_on_change_instances_2D_get(new) ==
    /\ vis.dropdown
    /\ \E i \in 1..Len(vis.options) : vis.options[i] = new
    /\ new # vis.value
    /\ vis' = [vis EXCEPT !.value = new,
                          !.img_2D = IF HasKey(instances_2D, new)
                                     THEN Lookup(instances_2D, new) ELSE 0]
    /\ last' = Report("CreateVis.on_change_instances_2D", 0, "")
    /\ UNCHANGED <<clock, instances_3D, heap_2D, instances_2D, creator, bokeh_file, arg, ret>>

CreateVis_on_change_instances_2D(new) ==
    /\ vis.dropdown
    /\ \E i \in 1..Len(vis.options) : vis.options[i] = new
    /\ new # vis.value
    /\ IF HasKey(instances_2D, new)
       THEN /\ vis' = [vis EXCEPT !.value = new, !.img_2D = Lookup(instances_2D, new)]
            /\ last' = Report("CreateVis.on_change_instances_2D", 0, "")
       ELSE /\ vis' = [vis EXCEPT !.value = new]
            /\ last' = Report("CreateVis.on_change_instances_2D", 0, "KeyError")
    /\ UNCHANGED <<clock, instances_3D, heap_2D, instances_2D, creator, bokeh_file, arg, ret>>

\* CreateVis._generate_plot: what it reports and the output target bokeh holds after it
CreateVis_plot(self) ==
    LET ct       == instances_3D[self.img_3D]
        histo    == heap_2D[self.img_2D]
        CT_slice == get_position(histo)
        begun    == [Report("CreateVis.generate_plot", 0, "") EXCEPT !.read = {self.img_2D}]
    IN  IF ~Loaded3D(ct) \/ ~Loaded2D(histo)
        THEN [report |-> [begun EXCEPT !.err = "AttributeError"], file |-> bokeh_file]
        ELSE IF ~(CT_slice < len(ct.img))
        THEN [report |-> [begun EXCEPT !.err = "IndexError", !.target = self.output_fname,
                                       !.slice = CT_slice],
              file |-> self.output_fname]
        ELSE [report |-> [begun EXCEPT !.target = self.output_fname, !.shown = TRUE,
                                       !.slice = CT_slice,
                                       !.left = Frame(ct.img, CT_slice),
                                       !.right = rgba(histo.img_2d, DefaultAlpha)],
              file |-> self.output_fname]

\* a render that would put the extension on the stored output name again
CreateVis_generate_plot_renamed ==
    /\ vis.button
    /\ LET r == CreateVis_plot(vis)
       IN  /\ last' = r.report
           /\ bokeh_file' = r.file
    /\ vis' = [vis EXCEPT !.output_fname = vis.output_fname \o Str_html]
    /\ UNCHANGED <<clock, instances_3D, heap_2D, instances_2D, creator, arg, ret>>

CreateVis_generate_plot ==
    /\ vis.button
    /\ LET r == CreateVis_plot(vis)
       IN  /\ last' = r.report
           /\ bokeh_file' = r.file
    /\ UNCHANGED <<clock, instances_3D, heap_2D, instances_2D, creator, vis, arg, ret>>

-----------------------------------------------------------------------------
(* What the user can pick or type *)

\* positions typed into the box, in halves: -0.5, 1.5, 2 and 2.5
TypedPositions == {0 - 1, 3, 4, 5}

\* names typed into the output-filename box
TypedNames ==
    {<<>>, <<"h", "t", "m", "l">>, <<".", "h", "t", "m", "l">>,
     <<"a", ".", "h", "t", "m", "l">>, <<"a", ".", "h", "t", "m", "l", ".", "b">>}

(* Importing: the volume, the 2D images and their registry *)
Next ==
    \/ Tick
    \/ Image3D_init
    \/ \E i \in 1..Len(instances_3D) : Image3D_display_widgets(i)
    \/ \E i \in 1..Len(instances_3D), f \in Files : Image3D_on_load_button_clicked(i, f)
    \/ CreateImage2D_display_widgets
    \/ CreateImage2D_import_2D
    \/ \E o \in 1..Len(heap_2D), x \in TypedPositions : Image2D_position_typed(o, x)
    \/ \E o \in 1..Len(heap_2D), f \in Files : Image2D_on_load_button_clicked(o, f)
    \/ CreateImage2D_display_instances
    \/ CreateImage2D_clear_all

Spec == Init /\ [][Next]_vars

(* Loading: the two load handlers on a stack, an RGB image, a 2-dimensional  *)
(* image and a file that does not decode.                                  *)
LoadFiles == {"ct3", "rgb", "gray", "notes"}

NextLoad ==
    \/ Image3D_init
    \/ \E i \in 1..Len(instances_3D) : Image3D_display_widgets(i)
    \/ \E i \in 1..Len(instances_3D), f \in LoadFiles : Image3D_on_load_button_clicked(i, f)
    \/ CreateImage2D_display_widgets
    \/ CreateImage2D_import_2D
    \/ \E o \in 1..Len(heap_2D), f \in LoadFiles : Image2D_on_load_button_clicked(o, f)

SpecLoad == Init /\ [][NextLoad]_vars

(* Recording: the registry handlers as time passes, on one volume stack    *)
(* and one histology file.                                                 *)
NextRegistry ==
    \/ Tick
    \/ Image3D_init
    \/ \E i \in 1..Len(instances_3D) : Image3D_display_widgets(i)
    \/ \E i \in 1..Len(instances_3D) : Image3D_on_load_button_clicked(i, "ct3")
    \/ CreateImage2D_display_widgets
    \/ CreateImage2D_import_2D
    \/ \E o \in 1..Len(heap_2D) : Image2D_on_load_button_clicked(o, "rgb")
    \/ CreateImage2D_display_instances
    \/ CreateImage2D_clear_all

SpecRegistry == Init /\ [][NextRegistry]_vars

(* Visualising: the same handlers on one volume stack and one histology    *)
(* file, and the CreateVis handlers.                                       *)
VisVolumes == {"ct3", "rgb"}

VisImages == {"rgb"}

VisPositions == {Float(2)}

VisNames == {<<"a">>}

NextVis ==
    \/ Tick
    \/ Image3D_init
    \/ \E i \in 1..Len(instances_3D) : Image3D_display_widgets(i)
    \/ \E i \in 1..Len(instances_3D), f \in VisVolumes : Image3D_on_load_button_clicked(i, f)
    \/ CreateImage2D_display_widgets
    \/ CreateImage2D_import_2D
    \/ \E o \in 1..Len(heap_2D), x \in VisPositions : Image2D_position_typed(o, x)
    \/ \E o \in 1..Len(heap_2D), f \in VisImages : Image2D_on_load_button_clicked(o, f)
    \/ CreateImage2D_display_instances
    \/ CreateImage2D_clear_all
    \/ CreateVis_init
    \/ CreateVis_display_widgets
    \/ \E new \in VisNames : CreateVis_on_change_output_filename(new)
    \/ \E o \in 1..Len(heap_2D) : CreateVis_on_change_instances_2D(heap_2D[o].time_imported)
    \/ CreateVis_generate_plot

SpecVis == Init /\ [][NextVis]_vars

(* Naming the output: one volume, one histology image, and every name *)
NextFname ==
    \/ Image3D_init
    \/ \E i \in 1..Len(instances_3D) : Image3D_display_widgets(i)
    \/ \E i \in 1..Len(instances_3D) : Image3D_on_load_button_clicked(i, "ct3")
    \/ CreateImage2D_display_widgets
    \/ CreateImage2D_import_2D
    \/ \E o \in 1..Len(heap_2D) : Image2D_on_load_button_clicked(o, "rgb")
    \/ CreateVis_init
    \/ CreateVis_display_widgets
    \/ \E new \in TypedNames : CreateVis_on_change_output_filename(new)
    \/ CreateVis_generate_plot

SpecFname == Init /\ [][NextFname]_vars

(* Clearing: one volume stack, histology images with a position typed,   *)
(* the registry cleared under a CreateVis with an output name typed, and   *)
(* the renders that follow.                                                *)
\* the position typed into the box, in halves: 1.5
ClearPositions == {3}

NextClear ==
    \/ Image3D_init
    \/ \E i \in 1..Len(instances_3D) : Image3D_display_widgets(i)
    \/ \E i \in 1..Len(instances_3D) : Image3D_on_load_button_clicked(i, "ct3")
    \/ CreateImage2D_display_widgets
    \/ CreateImage2D_import_2D
    \/ \E o \in 1..Len(heap_2D), x \in ClearPositions : Image2D_position_typed(o, x)
    \/ \E o \in 1..Len(heap_2D) : Image2D_on_load_button_clicked(o, "rgb")
    \/ CreateImage2D_clear_all
    \/ CreateVis_init
    \/ CreateVis_display_widgets
    \/ \E new \in VisNames : CreateVis_on_change_output_filename(new)
    \/ CreateVis_generate_plot

SpecClear == Init /\ [][NextClear]_vars

(* Selecting: histology images added at different seconds, the registry   *)
(* cleared under a CreateVis, and the dropdown selections that follow.     *)
NextSelect ==
    \/ Tick
    \/ Image3D_init
    \/ \E i \in 1..Len(instances_3D) : Image3D_display_widgets(i)
    \/ \E i \in 1..Len(instances_3D) : Image3D_on_load_button_clicked(i, "ct3")
    \/ CreateImage2D_display_widgets
    \/ CreateImage2D_import_2D
    \/ CreateImage2D_clear_all
    \/ CreateVis_init
    \/ CreateVis_display_widgets
    \/ \E o \in 1..Len(heap_2D) : CreateVis_on_change_instances_2D(heap_2D[o].time_imported)

SpecSelect == Init /\ [][NextSelect]_vars

(* Rendering: histology images added at different seconds, a position     *)
(* typed, and the dropdown selections and renders of a CreateVis.          *)
NextRender ==
    \/ Tick
    \/ Image3D_init
    \/ \E i \in 1..Len(instances_3D) : Image3D_display_widgets(i)
    \/ \E i \in 1..Len(instances_3D) : Image3D_on_load_button_clicked(i, "ct3")
    \/ CreateImage2D_display_widgets
    \/ CreateImage2D_import_2D
    \/ \E o \in 1..Len(heap_2D), x \in ClearPositions : Image2D_position_typed(o, x)
    \/ \E o \in 1..Len(heap_2D) : Image2D_on_load_button_clicked(o, "rgb")
    \/ CreateVis_init
    \/ CreateVis_display_widgets
    \/ \E o \in 1..Len(heap_2D) : CreateVis_on_change_instances_2D(heap_2D[o].time_imported)
    \/ CreateVis_generate_plot

SpecRender == Init /\ [][NextRender]_vars

(* Several volumes: one Image3D more than elsewhere, loaded with a stack   *)
(* of three frames or an array of one, and what is computed from them      *)
MaxVolumes == MaxImages3D + 1

NextVolumes ==
    \/ Image3D_create(MaxVolumes)
    \/ \E i \in 1..Len(instances_3D) : Image3D_display_widgets(i)
    \/ \E i \in 1..Len(instances_3D), f \in VisVolumes : Image3D_on_load_button_clicked(i, f)
    \/ \E i \in 1..Len(instances_3D) : show_3D_slider(i)
    \/ CreateImage2D_display_widgets
    \/ CreateImage2D_import_2D
    \/ \E o \in 1..Len(heap_2D) : Image2D_on_load_button_clicked(o, "rgb")
    \/ CreateVis_init
    \/ CreateVis_display_widgets
    \/ CreateVis_generate_plot

SpecVolumes == Init /\ [][NextVolumes]_vars

(* Calling rgba on every small 3-channel image *)
PixelValues == {0, 255}

Alphas == {0, 1, 127, 255}

Shapes == {s \in (1..MaxPixels) \X (1..MaxPixels) : s[1] * s[2] <= MaxPixels}

Images ==
    UNION {[dtype : {"uint8"}, shape : {<<s[1], s[2], 3>>},
            data : [1..(s[1] * s[2] * 3) -> PixelValues]] : s \in Shapes}

InitRgba ==
    /\ clock = 0
    /\ instances_3D = <<>>
    /\ heap_2D = <<>>
    /\ instances_2D = <<>>
    /\ creator = FALSE
    /\ vis = NoCreateVis
    /\ bokeh_file = <<>>
    /\ last = Idle
    /\ arg \in [img : Images, alpha : Alphas, given : BOOLEAN]
    /\ ret = NoArray

\* rgba(img) or rgba(img, alpha)
Call_rgba ==
    /\ last.op = ""
    /\ ret' = IF arg.given THEN rgba(arg.img, arg.alpha) ELSE rgba(arg.img, DefaultAlpha)
    /\ last' = Report("rgba", 0, "")
    /\ UNCHANGED <<clock, instances_3D, heap_2D, instances_2D, creator, vis, bokeh_file, arg>>

SpecRgba == InitRgba /\ [][Call_rgba]_vars

-----------------------------------------------------------------------------
(* Claims about importing, checked under Spec, SpecRegistry and SpecLoad *)

\* the step is the "Add new image" handler
Added == Len(heap_2D') = Len(heap_2D) + 1

\* C1: every Image2D gets a key different from every other Image2D's key, so
\* each creation adds one entry to instances_2D.
C1_KeysNeverCollide ==
    [][Added =>
          /\ \A o \in 1..Len(heap_2D) :
                heap_2D'[o].time_imported # heap_2D'[Len(heap_2D')].time_imported
          /\ Len(instances_2D') = Len(instances_2D) + 1]_vars

\* C2: right after an Image2D is created its key looks up that instance; after
\* "Clear all" the registry is empty and the list that follows has no rows.
C2_AddGetClearList ==
    [][/\ Added =>
             /\ HasKey(instances_2D', heap_2D'[Len(heap_2D')].time_imported)
             /\ Lookup(instances_2D', heap_2D'[Len(heap_2D')].time_imported) = Len(heap_2D')
       /\ last'.op = "CreateImage2D.clear_all" => instances_2D' = <<>>
       /\ (last.op = "CreateImage2D.clear_all" /\ last'.op = "CreateImage2D.display_instances")
             => (last'.err = "" /\ last'.rows = <<>>)]_vars

\* a list with no rows although images had been added and loaded before
C2_Witness ==
    /\ last.op = "CreateImage2D.display_instances"
    /\ last.err = "" /\ last.rows = <<>>
    /\ Len(heap_2D) >= 2
    /\ \E o \in 1..Len(heap_2D) : Loaded2D(heap_2D[o])
    /\ heap_2D[1].time_imported = heap_2D[2].time_imported

\* C3: every registered Image2D with a declared position has
\* 0 <= get_position() <= n_frames - 1 of instances_3D[0].
C3_PositionWithinVolume ==
    \A e \in 1..Len(instances_2D) :
        heap_2D[instances_2D[e].obj].widgets =>
            /\ 0 <= get_position(heap_2D[instances_2D[e].obj])
            /\ get_position(heap_2D[instances_2D[e].obj]) <= instances_3D[1].n_frames - 1

\* files that pass the dimensionality check of both load handlers
ThreeDimensional == {f \in Readable : ndim(Decoded[f]) = 3}

\* C5: a load that fails leaves img, n_frames, img_2d and both registries as
\* they were, and the next load of a valid file on that instance succeeds.
C5_FailedLoadChangesNothing ==
    [][/\ (last' # last /\ last'.op \in {"Image3D.load", "Image2D.load"} /\ last'.err # "")
             => (instances_3D' = instances_3D /\ heap_2D' = heap_2D
                   /\ instances_2D' = instances_2D)
       /\ \A f \in ThreeDimensional :
             /\ \A i \in 1..Len(instances_3D) :
                   (last.op = "Image3D.load" /\ last.obj = i /\ last.err # ""
                      /\ Image3D_on_load_button_clicked(i, f))
                   => (last'.err = "" /\ instances_3D'[i].img = img_as_ubyte(Decoded[f]))
             /\ \A o \in 1..Len(heap_2D) :
                   (last.op = "Image2D.load" /\ last.obj = o /\ last.err # ""
                      /\ Image2D_on_load_button_clicked(o, f))
                   => (last'.err = "" /\ heap_2D'[o].img_2d = img_as_ubyte(Decoded[f]))]_vars

\* a load that failed its dimensionality check on an instance holding an image
C5_Witness ==
    /\ last.op = "Image2D.load" /\ last.err = "ValueError"
    /\ Loaded2D(heap_2D[last.obj])
    /\ \E i \in 1..Len(instances_3D) : Loaded3D(instances_3D[i])

\* C6: an Image3D that holds an image holds a 3-dimensional one whose first
\* dimension is n_frames; an array of another dimensionality is rejected.
C6_VolumeIsStack ==
    [][/\ \A i \in 1..Len(instances_3D') :
             Loaded3D(instances_3D'[i]) =>
                 /\ ndim(instances_3D'[i].img) = 3
                 /\ instances_3D'[i].n_frames = instances_3D'[i].img.shape[1]
       /\ \A i \in 1..Len(instances_3D), f \in Readable \ ThreeDimensional :
             Image3D_on_load_button_clicked(i, f) => last'.err = "ValueError"]_vars

\* a rejected load on a volume that was loaded, and reloaded with another
\* frame count, before
C6_Witness ==
    /\ last.op = "Image3D.load" /\ last.err = "ValueError"
    /\ Loaded3D(instances_3D[last.obj])
    /\ instances_3D[last.obj].n_frames = 1
    /\ \E o \in 1..Len(heap_2D) : heap_2D[o].position.max = Float(2)

\* C7: the Image2D load accepts only a 3-dimensional array whose last axis
\* has size 3.
C7_SliceIsRGB ==
    \A o \in 1..Len(heap_2D) :
        Loaded2D(heap_2D[o]) =>
            (ndim(heap_2D[o].img_2d) = 3 /\ heap_2D[o].img_2d.shape[3] = 3)

-----------------------------------------------------------------------------
(* Claims about visualising, checked under SpecVis and SpecFname *)

Rendering == {"CreateImage2D.display_instances", "CreateVis.display_widgets",
              "CreateVis.generate_plot"}

\* C4: every Image2D a handler reads for rendering has its position and its
\* pixel data set.
C4_ReadsOnlyLoaded ==
    last.op \in Rendering =>
        \A o \in last.read : heap_2D[o].widgets /\ Loaded2D(heap_2D[o])

\* the position of the selected image lies outside the volume
OutOfRange ==
    LET p == get_position(heap_2D[vis.img_2D])
    IN  ~(0 <= p /\ p <= instances_3D[vis.img_3D].n_frames - 1)

\* C8: render checks the frame index first: out of range, it fails with a range
\* error before an output target is set up or a panel produced; in range, it
\* does not fail with a range error.
C8_RangeCheckedFirst ==
    (last.op = "CreateVis.generate_plot" /\ Loaded2D(heap_2D[vis.img_2D])) =>
        IF OutOfRange
        THEN last.err = "IndexError" /\ last.target = <<>> /\ ~last.shown
        ELSE last.err # "IndexError"

\* C9: output_fname ends with ".html": it is the entered text if that ends with
\* ".html" and the text with ".html" appended otherwise; render writes to it.
C9_OutputNameHasExtension ==
    /\ vis.textbox =>
          /\ endswith(vis.output_fname, Str_html)
          /\ IF endswith(vis.text, Str_html)
             THEN vis.output_fname = vis.text
             ELSE vis.output_fname = vis.text \o Str_html
    /\ (last.op = "CreateVis.generate_plot" /\ last.err = "")
          => (last.target = vis.output_fname /\ bokeh_file = last.target)

\* a plot written to a name that was typed with its extension, after one typed
\* without
C9_Witness ==
    /\ last.op = "CreateVis.generate_plot" /\ last.shown
    /\ last.target = <<"a", ".", "h", "t", "m", "l">>
    /\ bokeh_file = last.target

-----------------------------------------------------------------------------
(* Claims about rgba, checked under SpecRgba *)

\* a[:, :, :k] for a 3-dimensional array
Channels(a, k) ==
    LET c == a.shape[3]
        n == a.shape[1] * a.shape[2]
    IN  Array(a.dtype, <<a.shape[1], a.shape[2], k>>,
              [j \in 1..(n * k) |-> a.data[((j - 1) \div k) * c + ((j - 1) % k) + 1]])

\* a[:, :, k] for a 3-dimensional array, k counted from 0
Channel(a, k) ==
    LET c == a.shape[3]
        n == a.shape[1] * a.shape[2]
    IN  [j \in 1..n |-> a.data[(j - 1) * c + k + 1]]

\* C10: for a 3-channel image I and alpha a, rgba(I, a) has shape
\* (rows, cols, 4), its first three channels are I, its fourth is a at every
\* pixel; without a the fourth channel is 255.
C10_AlphaAppended ==
    last.op = "rgba" =>
        /\ ret.shape = <<arg.img.shape[1], arg.img.shape[2], 4>>
        /\ Len(ret.data) = arg.img.shape[1] * arg.img.shape[2] * 4
        /\ Channels(ret, 3) = arg.img
        /\ \A j \in 1..(arg.img.shape[1] * arg.img.shape[2]) :
              Channel(ret, 3)[j] = IF arg.given THEN arg.alpha ELSE 255

\* a call with a translucent alpha on an image of more than one pixel
C10_Witness ==
    /\ last.op = "rgba" /\ arg.given /\ arg.alpha = 127
    /\ arg.img.shape = <<1, 2, 3>>
    /\ arg.img.data = <<0, 255, 255, 255, 0, 0>>

-----------------------------------------------------------------------------
(* Claims about clearing and selecting, checked under SpecClear and SpecSelect *)

\* C11: "Clear all" changes only the registry mapping: every Image2D keeps its
\* pixel data and position, the CreateVis keeps its img_2D, and the render that
\* follows the clear reads that Image2D.
C11_ClearKeepsReferenced ==
    [][/\ (last' # last /\ last'.op = "CreateImage2D.clear_all")
             => (heap_2D' = heap_2D /\ vis' = vis /\ instances_3D' = instances_3D
                   /\ bokeh_file' = bokeh_file)
       /\ (last.op = "CreateImage2D.clear_all" /\ last'.op = "CreateVis.generate_plot")
             => /\ last'.read = {vis.img_2D}
                /\ last'.err = ""
                      => /\ last'.slice = heap_2D[vis.img_2D].position.value \div 2
                         /\ Channels(last'.right, 3) = heap_2D[vis.img_2D].img_2d]_vars

\* a plot shown from an emptied registry, at the position typed before
C11_Witness ==
    /\ last.op = "CreateVis.generate_plot" /\ last.shown
    /\ instances_2D = <<>>
    /\ last.slice = 1

\* C12: a dropdown selection of a key that instances_2D no longer holds fails
\* with KeyError and leaves img_2D, the Image2D objects and the registry as
\* they were; a selection of a key it holds succeeds.
C12_AbsentKeyFails ==
    [][(last'.op = "CreateVis.on_change_instances_2D" /\ vis'.value # vis.value)
          => IF \E e \in 1..Len(instances_2D) : instances_2D[e].key = vis'.value
             THEN last'.err = ""
             ELSE /\ last'.err = "KeyError"
                  /\ vis'.img_2D = vis.img_2D
                  /\ heap_2D' = heap_2D
                  /\ instances_2D' = instances_2D]_vars

\* a selection that failed on an emptied registry, under a CreateVis that
\* holds an Image2D
C12_Witness ==
    /\ last.op = "CreateVis.on_change_instances_2D" /\ last.err = "KeyError"
    /\ instances_2D = <<>>
    /\ vis.img_2D # 0
    /\ Len(vis.options) >= 2

-----------------------------------------------------------------------------
(* Claims about rendering, checked under SpecClear, SpecVolumes and SpecRender *)

\* C13: a render changes none of the state it reads (both registries, the
\* Image3D and Image2D objects, the CreateVis), and a second render right after
\* it has the same target, frame index, left panel and right panel.
C13_RenderIdempotent ==
    [][(last'.op = "CreateVis.generate_plot" /\ (last' # last \/ bokeh_file' # bokeh_file))
          => /\ instances_3D' = instances_3D
             /\ instances_2D' = instances_2D
             /\ heap_2D' = heap_2D
             /\ vis' = vis
             /\ CreateVis_plot(vis)' = [report |-> last', file |-> bokeh_file']]_vars

\* a plot shown under a typed output name, at a typed position
C13_Witness ==
    /\ last.op = "CreateVis.generate_plot" /\ last.shown
    /\ last.target = <<"a", ".", "h", "t", "m", "l">>
    /\ bokeh_file = last.target
    /\ last.slice = 1

\* C14: a CreateVis holds instances_3D[0] whatever other Image3D exists or is
\* loaded; a plot's left panel is a frame of instances_3D[0], and the position
\* box of a new Image2D and the slider of show_3D_slider end at its
\* n_frames - 1.
C14_FirstVolume ==
    /\ vis.made => vis.img_3D = 1
    /\ (last.op = "CreateVis.generate_plot" /\ last.shown)
          => last.left = Frame(instances_3D[1].img, last.slice)
    /\ (last.op = "CreateImage2D.import_2D" /\ last.err = "")
          => /\ heap_2D[last.obj].position.min = 0
             /\ heap_2D[last.obj].position.max = 2 * (instances_3D[1].n_frames - 1)
    /\ (last.op = "show_3D_slider" /\ last.err = "")
          => last.range = <<0, instances_3D[1].n_frames - 1>>

\* a plot of a frame of the first volume, a stack of three, while the
\* second volume, created and loaded too, is an array of one frame of
\* another shape
C14_Witness ==
    /\ last.op = "CreateVis.generate_plot" /\ last.shown
    /\ last.left.shape = <<1, 2>>
    /\ Len(instances_3D) >= 2
    /\ Loaded3D(instances_3D[2])
    /\ instances_3D[2].n_frames = 1
    /\ instances_3D[1].n_frames = 3

\* the events that assign img_2D of the CreateVis
Selecting == {"CreateVis", "CreateVis.display_widgets", "CreateVis.on_change_instances_2D"}

\* C15: a plot's left panel is frame int(p) of the volume, p the position of
\* the Image2D the CreateVis holds, and its right panel is that Image2D's
\* pixels with an opaque fourth channel; the CreateVis holds the entry of the
\* key selected by the latest successful dropdown change, or the entry of the
\* first registry key of the moment its widgets were created.
C15_PlotOfSelected ==
    [][/\ (last'.op = "CreateVis.generate_plot" /\ last'.shown)
             => LET ct    == instances_3D'[vis'.img_3D].img
                    histo == heap_2D'[vis'.img_2D]
                    n     == ct.shape[2] * ct.shape[3]
                    k     == histo.position.value \div 2
                IN  /\ last'.left.shape = <<ct.shape[2], ct.shape[3]>>
                    /\ last'.left.data = SubSeq(ct.data, k * n + 1, (k + 1) * n)
                    /\ Channels(last'.right, 3) = histo.img_2d
                    /\ \A j \in 1..(histo.img_2d.shape[1] * histo.img_2d.shape[2]) :
                          Channel(last'.right, 3)[j] = 255
       /\ (last'.op = "CreateVis.on_change_instances_2D" /\ last'.err = "")
             => \E e \in 1..Len(instances_2D') :
                   /\ instances_2D'[e].key = vis'.value
                   /\ instances_2D'[e].obj = vis'.img_2D
       /\ (last'.op = "CreateVis.display_widgets" /\ last'.err = "")
             => /\ vis'.value = instances_2D'[1].key
                /\ vis'.img_2D = instances_2D'[1].obj
       /\ (last'.op \notin Selecting \/ last'.err # "") => vis'.img_2D = vis.img_2D]_vars

\* a plot of the second Image2D, selected in the dropdown, at the position
\* 1.5 typed into it, while the first Image2D is at 0
C15_Witness ==
    /\ last.op = "CreateVis.generate_plot" /\ last.shown
    /\ Len(vis.options) = 2
    /\ vis.value = vis.options[2]
    /\ vis.img_2D = 2
    /\ last.slice = 1
    /\ heap_2D[1].position.value = 0

\* C18: CreateVis() with no Image3D created raises NameError and makes no
\* object; display_widgets() on an empty instances_2D raises IndexError and
\* wires no render button; a CreateVis whose render button is wired holds an
\* Image3D and an Image2D, and only such a CreateVis renders.
C18_RenderNeedsBoth ==
    [][/\ (last'.op = "CreateVis" /\ last' # last /\ Len(instances_3D) = 0)
             => (last'.err = "NameError" /\ vis' = vis /\ ~vis'.made)
       /\ (last'.op = "CreateVis.display_widgets" /\ (last' # last \/ vis' # vis)
             /\ instances_2D = <<>>)
             => /\ last'.err = "IndexError"
                /\ vis'.button = vis.button
                /\ vis'.img_2D = vis.img_2D
       /\ vis'.button
             => /\ vis'.made
                /\ vis'.img_3D \in 1..Len(instances_3D')
                /\ vis'.img_2D \in 1..Len(heap_2D')
       /\ (last'.op = "CreateVis.generate_plot" /\ last' # last) => vis.button]_vars

\* widget creation that failed on a registry emptied by "Clear all", leaving
\* a CreateVis without a render button
C18_Witness ==
    /\ last.op = "CreateVis.display_widgets" /\ last.err = "IndexError"
    /\ instances_2D = <<>>
    /\ Len(heap_2D) >= 1
    /\ vis.made /\ ~vis.button /\ vis.img_2D = 0

-----------------------------------------------------------------------------
(* Claims about what lasts, checked under SpecLoad and SpecRegistry *)

\* C16: once an Image3D holds an image, its img and n_frames are the same
\* after every later event, a click of its own load button with another
\* file included.
C16_VolumeNeverChanges ==
    [][\A i \in 1..Len(instances_3D) :
          Loaded3D(instances_3D[i]) =>
              /\ instances_3D'[i].img = instances_3D[i].img
              /\ instances_3D'[i].n_frames = instances_3D[i].n_frames]_vars

\* C17: an entry of instances_2D keeps its key and its instance over every
\* event but "Clear all".
C17_EntriesKept ==
    [][(last'.op # "CreateImage2D.clear_all" \/ last' = last)
          => \A e \in 1..Len(instances_2D) :
                \E n \in 1..Len(instances_2D') :
                   /\ instances_2D'[n].key = instances_2D[e].key
                   /\ instances_2D'[n].obj = instances_2D[e].obj]_vars

====
